---- MODULE Spec2Model ----
(***************************************************************************)
(* Model of the Maine State Senate scraper (src/src/main.py).              *)
(*                                                                         *)
(* Text is modelled as a sequence of one-character strings, so that the    *)
(* regular expressions and substring tests of the program are computed on  *)
(* characters, the way the program computes them.                          *)
(***************************************************************************)
EXTENDS Integers, Sequences, FiniteSets, TLC

\* ------------------------------------------------------------------------
\* Characters and text helpers (Python str / re primitives)
\* ------------------------------------------------------------------------

\* Python's \s and str.strip() whitespace that occurs in the modelled pages
Whitespace == {" ", "\n", "\r", "\t"}

\* Python's \d
Digits == {"0", "1", "2", "3", "4", "5", "6", "7", "8", "9"}

\* the empty str ""
EmptyText == << >>

MinOf(S) == CHOOSE x \in S : \A y \in S : x <= y

MaxOf(S) == CHOOSE x \in S : \A y \in S : x >= y

\* `pat in s` for str
Contains(s, pat) ==
    \E i \in 1..(Len(s) + 1 - Len(pat)) : SubSeq(s, i, i + Len(pat) - 1) = pat

\* s.startswith(pat, i - 1)
StartsAt(s, i, pat) ==
    /\ i + Len(pat) - 1 <= Len(s)
    /\ SubSeq(s, i, i + Len(pat) - 1) = pat

\* index after the longest run of characters of the class cls that starts at
\* index i (a greedy [cls]*)
RECURSIVE SkipClass(_, _, _)
SkipClass(s, i, cls) ==
    IF i <= Len(s) /\ s[i] \in cls THEN SkipClass(s, i + 1, cls) ELSE i

\* index after a greedy \s* that starts at index i
SkipWS(s, i) == SkipClass(s, i, Whitespace)

\* index after a greedy \d* that starts at index i
SkipDigits(s, i) == SkipClass(s, i, Digits)

\* str.strip()
Strip(s) ==
    LET keep == {j \in 1..Len(s) : s[j] \notin Whitespace}
    IN  IF keep = {} THEN EmptyText ELSE SubSeq(s, MinOf(keep), MaxOf(keep))

\* re.sub(r"[\r\n]", " ", text)
SubNewlines(s) ==
    [i \in 1..Len(s) |-> IF s[i] \in {"\r", "\n"} THEN " " ELSE s[i]]

\* re.sub(r"\s+", " ", text)
CollapseWS(s) ==
    LET \* each character with the one before it ("" before the first)
        pairs == [i \in 1..Len(s) |-> <<s[i], IF i = 1 THEN "" ELSE s[i - 1]>>]
        \* a whitespace character after a whitespace character is dropped
        Kept(c) == c[1] \notin Whitespace \/ c[2] \notin Whitespace
        kept == SelectSeq(pairs, Kept)
    IN  [n \in 1..Len(kept) |->
            IF kept[n][1] \in Whitespace THEN " " ELSE kept[n][1]]

\* ------------------------------------------------------------------------
\* extract_senator_from_string
\* ------------------------------------------------------------------------

SenateDistrict == <<"S", "e", "n", "a", "t", "e", " ", "D", "i", "s", "t", "r", "i", "c", "t">>

\* the tuple ("", "", "", "")
Empty4 == <<EmptyText, EmptyText, EmptyText, EmptyText>>

NoMatch == [ok |-> FALSE]

MaxOrZero(S) == IF S = {} THEN 0 ELSE MaxOf(S)

\* The pattern of extract_senator_from_string is
\*   ([\W\w\s()-]+)\s*-\s*Senate District\s+(\d+)\s*-\s*(.+?)\s*\((.+?)-
\* The operators below match it piece by piece, each handing the index it
\* reached to the next, in the order the backtracking matcher tries.

\* `\((.+?)-` with the "(" at index r: the party group grows from one
\* character up to the first "-" after it
OpensAt(s, r) ==
    /\ r <= Len(s)
    /\ s[r] = "("
    /\ \E d \in (r + 2)..Len(s) : s[d] = "-"

\* `\s*\((.+?)-` matches at index e
Opens(s, e) == OpensAt(s, SkipWS(s, e))

\* the member group is s[s0..e-1] and the "(" is at index r
PartyFrom(s, s0, e, r) ==
    [ok |-> TRUE,
     member |-> SubSeq(s, s0, e - 1),
     party |-> SubSeq(s, r + 1, MinOf({x \in (r + 2)..Len(s) : s[x] = "-"}) - 1)]

\* `(.+?)\s*\((.+?)-` with the member group starting at index s0 (0: nowhere):
\* the member group grows from one character up
MemberFrom(s, s0, e) ==
    IF s0 = 0 THEN NoMatch ELSE PartyFrom(s, s0, e, SkipWS(s, e))

FirstOpen(s, s0) ==
    IF s0 = 0 THEN 0 ELSE MinOf({x \in (s0 + 1)..(Len(s) + 1) : Opens(s, x)})

MemberAt(s, s0) == MemberFrom(s, s0, FirstOpen(s, s0))

\* `\s*(.+?)\s*\((.+?)-` matched from index p: the leading \s* is greedy and
\* gives whitespace back to the member group only when nothing else matches
MemberParty(s, p) ==
    MemberAt(s, MaxOrZero({s0 \in p..SkipWS(s, p) :
                              \E e \in (s0 + 1)..(Len(s) + 1) : Opens(s, e)}))

WithDistrict(mp, district) ==
    IF ~mp.ok THEN NoMatch
    ELSE [ok |-> TRUE, district |-> district, member |-> mp.member, party |-> mp.party]

\* `\s*-\s*(.+?)\s*\((.+?)-` after the digits s[d0..d1-1], at index h
TailSecondHyphen(s, d0, d1, h) ==
    IF ~(h <= Len(s) /\ s[h] = "-") THEN NoMatch
    ELSE WithDistrict(MemberParty(s, h + 1), SubSeq(s, d0, d1 - 1))

\* the district group written `(\d*)`: it may be empty
TailDigitsOptional(s, d0, d1) == TailSecondHyphen(s, d0, d1, SkipWS(s, d1))

\* `(\d+)...` at index d0, the digits ending before index d1
TailDigits(s, d0, d1) ==
    IF d1 = d0 THEN NoMatch ELSE TailSecondHyphen(s, d0, d1, SkipWS(s, d1))

\* `\s+(\d+)...` at index w, the whitespace ending before index d0
TailDistrict(s, w, d0) ==
    IF d0 = w THEN NoMatch ELSE TailDigits(s, d0, SkipDigits(s, d0))

\* `Senate District\s+(\d+)...` at index k
TailLiteral(s, k) ==
    IF ~StartsAt(s, k, SenateDistrict) THEN NoMatch
    ELSE TailDistrict(s, k + Len(SenateDistrict), SkipWS(s, k + Len(SenateDistrict)))

\* `-\s*Senate District...` at index j
TailHyphen(s, j) ==
    IF ~(j <= Len(s) /\ s[j] = "-") THEN NoMatch
    ELSE TailLiteral(s, SkipWS(s, j + 1))

\* the pattern after its first group, matched at index i
PatternTail(s, i) == TailHyphen(s, SkipWS(s, i))

WithTown(t, town) ==
    [ok |-> TRUE, town |-> town, district |-> t.district,
     member |-> t.member, party |-> t.party]

\* the first group ends before index i (0: the pattern does not match)
RosterAt(s, i) ==
    IF i = 0 THEN NoMatch ELSE WithTown(PatternTail(s, i), SubSeq(s, 1, i - 1))

\* re.match(pattern, s): the first group matches any character and is greedy,
\* so it ends at the last index from which the rest of the pattern matches
RosterMatch(s) ==
    RosterAt(s, MaxOrZero({i \in 2..(Len(s) + 1) : PatternTail(s, i).ok}))

\* the four groups, stripped: <<district, town, member, party>>
MatchFields(match) ==
    IF ~match.ok THEN Empty4
    ELSE <<Strip(match.district), Strip(match.town),
           Strip(match.member), Strip(match.party)>>

\* returns <<district, town, member, party>>
extract_senator_from_string(text) ==
    IF ~Contains(text, SenateDistrict) THEN Empty4
    ELSE MatchFields(RosterMatch(CollapseWS(SubNewlines(text))))

\* ------------------------------------------------------------------------
\* Profile-page field extractors.  A parsed <p> element is a record
\*   [text  : its get_text(),
\*    strong: whether find("strong") finds a sub-element,
\*    links : its <a href=...> sub-elements in document order, each
\*            [href, text]]
\* ------------------------------------------------------------------------

UpperCase == <<"A", "B", "C", "D", "E", "F", "G", "H", "I", "J", "K", "L", "M",
               "N", "O", "P", "Q", "R", "S", "T", "U", "V", "W", "X", "Y", "Z">>

LowerCase == <<"a", "b", "c", "d", "e", "f", "g", "h", "i", "j", "k", "l", "m",
               "n", "o", "p", "q", "r", "s", "t", "u", "v", "w", "x", "y", "z">>

Letters == {UpperCase[i] : i \in 1..26} \cup {LowerCase[i] : i \in 1..26}

ToLower == [c \in {UpperCase[i] : i \in 1..26} |->
               LowerCase[CHOOSE i \in 1..26 : UpperCase[i] = c]]

LowerChar(c) == IF c \in DOMAIN ToLower THEN ToLower[c] ELSE c

LowerText(s) == [i \in 1..Len(s) |-> LowerChar(s[i])]

\* re.compile(pat, re.IGNORECASE).search(s) for a literal pat
SearchIgnoreCase(s, pat) == Contains(LowerText(s), LowerText(pat))

\* sep.join(list)
RECURSIVE Join(_, _)
Join(list, sep) ==
    IF list = << >> THEN EmptyText
    ELSE IF Len(list) = 1 THEN list[1]
    ELSE list[1] \o sep \o Join(Tail(list), sep)

\* [a-zA-Z0-9._%+-]
EmailLocalChars == Letters \cup Digits \cup {".", "_", "%", "+", "-"}

\* [a-zA-Z0-9.-]
EmailDomainChars == Letters \cup Digits \cup {".", "-"}

\* email_regex = r"[a-zA-Z0-9._%+-]+@[a-zA-Z0-9.-]+\.[a-zA-Z]{2,}" matched
\* at index i: the index after the match, 0 when it does not match there
EmailMatchEnd(s, i) ==
    LET at == SkipClass(s, i, EmailLocalChars)
    IN  IF at = i \/ at > Len(s) \/ s[at] # "@" THEN 0
        ELSE LET k    == SkipClass(s, at + 1, EmailDomainChars)
                 dots == {m \in (at + 2)..(k - 1) :
                             /\ s[m] = "."
                             /\ m + 2 <= Len(s)
                             /\ s[m + 1] \in Letters
                             /\ s[m + 2] \in Letters}
             IN  IF dots = {} THEN 0
                 ELSE SkipClass(s, MaxOf(dots) + 1, Letters)

\* re.match(email_regex, s)
EmailMatches(s) == EmailMatchEnd(s, 1) # 0

\* re.search(email_regex, s): "" stands for no match (a match is never empty)
EmailSearch(s) ==
    LET hits == {i \in 1..Len(s) : EmailMatchEnd(s, i) # 0}
    IN  IF hits = {} THEN EmptyText
        ELSE SubSeq(s, MinOf(hits), EmailMatchEnd(s, MinOf(hits)) - 1)

Mailto == <<"m", "a", "i", "l", "t", "o", ":">>

EmailLabel == <<"E", "m", "a", "i", "l">>

\* what one paragraph that names "Email" yields: "" when the loop goes on
\* to the next paragraph
EmailOfParagraph(p) ==
    LET mail == {i \in 1..Len(p.links) : StartsAt(p.links[i].href, 1, Mailto)}
        email_link == p.links[MinOf(mail)]
        email_text == Strip(email_link.text)
        href == email_link.href
        email_from_href ==
            Strip(SubSeq(href, SkipWS(href, Len(Mailto) + 1), Len(href)))
    IN  IF mail # {} /\ EmailMatches(email_text) THEN email_text
        ELSE IF mail # {} /\ EmailMatches(email_from_href) THEN email_from_href
        ELSE Strip(EmailSearch(p.text))

\* the first paragraph that names "Email" decides, address or not
extract_email_first_named(paras) ==
    LET named == {i \in 1..Len(paras) : SearchIgnoreCase(paras[i].text, EmailLabel)}
    IN  IF named = {} THEN EmptyText ELSE EmailOfParagraph(paras[MinOf(named)])

extract_email_from_content(paras) ==
    LET found == {i \in 1..Len(paras) :
                     /\ SearchIgnoreCase(paras[i].text, EmailLabel)
                     /\ EmailOfParagraph(paras[i]) # EmptyText}
    IN  IF found = {} THEN EmptyText ELSE EmailOfParagraph(paras[MinOf(found)])

\* [\s.-]
PhoneSeparators == Whitespace \cup {".", "-"}

\* phone_regex = r"\(?\d{3}\)?[\s.-]?\d{3}[\s.-]?\d{4}" matched at index i: the
\* index after the match, 0 when it does not match there
PhoneMatchEnd(s, i) ==
    LET Opt(j, cls) == IF j <= Len(s) /\ s[j] \in cls THEN j + 1 ELSE j
        DigitRun(j, n) == /\ j + n - 1 <= Len(s)
                          /\ \A x \in j..(j + n - 1) : s[x] \in Digits
        a == Opt(i, {"("})
        b == Opt(a + 3, {")"})
        c == Opt(b, PhoneSeparators)
        d == Opt(c + 3, PhoneSeparators)
    IN  IF DigitRun(a, 3) /\ DigitRun(c, 3) /\ DigitRun(d, 4) THEN d + 4 ELSE 0

\* re.findall(phone_regex, s[i-1:]): the matches left to right, not overlapping
RECURSIVE PhoneFindAll(_, _)
PhoneFindAll(s, i) ==
    IF i > Len(s) THEN << >>
    ELSE IF PhoneMatchEnd(s, i) # 0
         THEN <<SubSeq(s, i, PhoneMatchEnd(s, i) - 1)>>
                  \o PhoneFindAll(s, PhoneMatchEnd(s, i))
         ELSE PhoneFindAll(s, i + 1)

HomeLabel == <<"H", "o", "m", "e">>

CellLabel == <<"C", "e", "l", "l">>

StateHouseLabel == <<"S", "t", "a", "t", "e", " ", "H", "o", "u", "s", "e">>

CommaSpace == <<",", " ">>

SemicolonSpace == <<";", " ">>

\* the phone numbers of the paragraphs that name the label, in paragraph order
RECURSIVE PhonesLabelled(_, _)
PhonesLabelled(paras, label) ==
    IF paras = << >> THEN << >>
    ELSE (IF SearchIgnoreCase(paras[1].text, label)
          THEN PhoneFindAll(paras[1].text, 1)
          ELSE << >>) \o PhonesLabelled(Tail(paras), label)

\* the cell numbers put before the home numbers
extract_phones_cell_first(paras) ==
    <<Join(PhonesLabelled(paras, CellLabel) \o PhonesLabelled(paras, HomeLabel),
           CommaSpace),
      Join(PhonesLabelled(paras, StateHouseLabel), CommaSpace)>>

\* the state house numbers also put with the personal numbers
extract_phones_one_list(paras) ==
    <<Join(PhonesLabelled(paras, HomeLabel) \o PhonesLabelled(paras, CellLabel)
               \o PhonesLabelled(paras, StateHouseLabel), CommaSpace),
      Join(PhonesLabelled(paras, StateHouseLabel), CommaSpace)>>

\* returns <<home_phone, state_house_phone>>
extract_phones_from_content(paras) ==
    LET home_phones == PhonesLabelled(paras, HomeLabel)
        cell_phones == PhonesLabelled(paras, CellLabel)
        state_house_phones == PhonesLabelled(paras, StateHouseLabel)
        personal_phones == home_phones \o cell_phones
    IN  <<Join(personal_phones, CommaSpace), Join(state_house_phones, CommaSpace)>>

CommitteeLabel == <<"C", "o", "m", "m", "i", "t", "t", "e", "e", " ",
                    "A", "s", "s", "i", "g", "n", "m", "e", "n", "t", "s">>

\* the loop of extract_committees_from_content from paragraph i on, with
\* found_committee_section as it stands before paragraph i
RECURSIVE CommitteeLoop(_, _, _)
CommitteeLoop(paras, i, found_committee_section) ==
    IF i > Len(paras) THEN << >>
    ELSE IF SearchIgnoreCase(paras[i].text, CommitteeLabel)
         THEN CommitteeLoop(paras, i + 1, TRUE)
    ELSE IF ~found_committee_section
         THEN CommitteeLoop(paras, i + 1, FALSE)
    ELSE IF Strip(paras[i].text) = EmptyText \/ paras[i].strong
         THEN << >>
    ELSE <<Strip(paras[i].text)>> \o CommitteeLoop(paras, i + 1, TRUE)

extract_committees_from_content(paras) ==
    Join(CommitteeLoop(paras, 1, FALSE), SemicolonSpace)

\* ------------------------------------------------------------------------
\* The web site: the index page and the profile pages it links to
\* ------------------------------------------------------------------------

\* the most paragraphs the content region of the index page holds
MaxParagraphs == 3

TextAbbot == <<"A", "b", " ", "-", " ", "S", "e", "n", "a", "t", "e", " ", "D",
      "i", "s", "t", "r", "i", "c", "t", " ", "4", " ", "-", " ", "A",
      "l", " ", "B", "a", " ", "(", "R", "-", "P", "e", ")">>

TextActon == <<"A", "c", " ", "-", " ", "S", "e", "n", "a", "t", "e", " ", "D",
      "i", "s", "t", "r", "i", "c", "t", " ", "4", " ", "-", " ", "A",
      "l", " ", "B", "a", " ", "(", "R", "-", "P", "e", ")">>

TextAdams == <<"A", "d", "-", " ", "S", "e", "n", "a", "t", "e", " ", "D", "i",
      "s", "t", "r", "i", "c", "t", " ", "4", " ", "-", "\n", "A", "l",
      " ", "B", "a", " ", "(", "R", "-", "P", "e", ")">>

TextBangor == <<"B", "c", " ", "-", " ", "S", "e", "n", "a", "t", "e", " ", "D",
      "i", "s", "t", "r", "i", "c", "t", " ", "1", "9", " ", "-", " ",
      "C", "y", " ", "D", "o", " ", "(", "D", "-", "Y", "o", ")">>

TextLetter == <<"-", "B", "-", " ", "t", "o", "p", " ", "o", "f", " ", "p", "a",
      "g", "e">>

\* The <p> elements an index page is made of: [text |-> get_text(),
\* hrefs |-> the href of each <a href=...> sub-element, in document order].
\* Three towns of one senator (a link, a mistyped link, no link), a town of
\* another senator, and a paragraph that is no roster line.
IndexParagraphs ==
    <<[text |-> TextAbbot,  hrefs |-> <<"/d4">>],
      [text |-> TextActon,  hrefs |-> <<"/d4x">>],
      [text |-> TextAdams,  hrefs |-> << >>],
      [text |-> TextBangor, hrefs |-> <<"/d19", "#top">>],
      [text |-> TextLetter, hrefs |-> <<"#top">>]>>

\* sequences of at most n elements of S
SeqsUpTo(S, n) == UNION {[1..k -> S] : k \in 0..n}

\* An index page: whether soup.find("div", id="content") finds the content
\* region, and the paragraphs inside it (indices into IndexParagraphs)
IndexPages ==
    {[content |-> FALSE, paras |-> << >>]}
        \cup {[content |-> TRUE, paras |-> ps] :
                 ps \in SeqsUpTo(DOMAIN IndexParagraphs, MaxParagraphs)}

H1Al == <<"S", "e", "n", ".", " ", "A", "l", " ", "B", "a">>

H1Cy == <<"S", "e", "n", ".", " ", "C", "y", " ", "D", "o">>

PageNotFound == <<"P", "a", "g", "e", " ", "N", "o", "t", " ", "F", "o", "u", "n", "d">>

TextAlEmail == <<"E", "m", "a", "i", "l", ":", " ", "a", "l", "@", "m", "e", ".",
      "g", "o", "v">>

HrefAl == <<"m", "a", "i", "l", "t", "o", ":", "a", "l", "@", "m", "e", ".",
      "g", "o", "v">>

AddrAl == <<"a", "l", "@", "m", "e", ".", "g", "o", "v">>

TextAlHome == <<"H", "o", "m", "e", ":", " ", "2", "0", "7", "-", "5", "5", "5",
      "-", "0", "1", "0", "1">>

TextAlState == <<"S", "t", "a", "t", "e", " ", "H", "o", "u", "s", "e", ":", " ",
      "(", "2", "0", "7", ")", " ", "2", "8", "7", "-", "1", "5", "1",
      "5">>

TextCommittees == <<"C", "o", "m", "m", "i", "t", "t", "e", "e", " ", "A", "s", "s",
      "i", "g", "n", "m", "e", "n", "t", "s", ":">>

TextLabor == <<"L", "a", "b", "o", "r">>

TextService == <<"L", "e", "g", "i", "s", "l", "a", "t", "i", "v", "e", " ", "S",
      "e", "r", "v", "i", "c", "e">>

TextCyEmail == <<"E", "m", "a", "i", "l", ":", " ", "c", "y", "@", "m", "e", ".",
      "g", "o", "v">>

TextCyCell == <<"C", "e", "l", "l", ":", " ", "2", "0", "7", ".", "5", "5", "5",
      ".", "0", "1", "0", "2">>

TextTaxation == <<"T", "a", "x", "a", "t", "i", "o", "n">>

TextWebmaster == <<"E", "m", "a", "i", "l", " ", "w", "e", "b", "@", "m", "e", ".",
      "g", "o", "v">>

\* a <p> element of a profile page
Para(text, strong, bold, links) ==
    [text |-> text, strong |-> strong, bold |-> bold, links |-> links]

\* The pages the site serves: [content |-> whether the page has the
\* <div id="content"> region, h1s |-> the get_text() of the <h1> elements in
\* it, paras |-> the <p> elements in it]
ProfilePage(name) ==
    CASE name = "PageAl" ->
            [content |-> TRUE, h1s |-> <<H1Al>>,
             paras |-> <<Para(TextAlEmail, TRUE, FALSE,
                              <<[href |-> HrefAl, text |-> AddrAl]>>),
                         Para(TextAlHome, FALSE, TRUE, << >>),
                         Para(TextAlState, TRUE, FALSE, << >>),
                         Para(TextCommittees, TRUE, FALSE, << >>),
                         Para(TextLabor, FALSE, FALSE, << >>),
                         Para(TextService, TRUE, FALSE, << >>)>>]
      [] name = "PageCy" ->
            [content |-> TRUE, h1s |-> <<H1Cy>>,
             paras |-> <<Para(TextCyEmail, TRUE, FALSE, << >>),
                         Para(TextCyCell, FALSE, TRUE, << >>),
                         Para(TextCommittees, TRUE, FALSE, << >>),
                         Para(TextTaxation, FALSE, FALSE, << >>),
                         Para(EmptyText, FALSE, FALSE, << >>)>>]
      [] name = "NotFound" ->
            [content |-> TRUE, h1s |-> <<PageNotFound>>,
             paras |-> <<Para(TextWebmaster, FALSE, FALSE, << >>)>>]
      [] name = "NoContent" ->
            [content |-> FALSE, h1s |-> << >>, paras |-> << >>]

\* the paths the index paragraphs link to
ProfileLinks == {"/d4", "/d4x", "/d19"}

\* what the site may serve at a path
PagesAt(link) ==
    CASE link = "/d4"  -> {"PageAl", "NotFound", "NoContent"}
      [] link = "/d4x" -> {"NotFound", "PageAl"}
      [] link = "/d19" -> {"PageCy", "NotFound", "NoContent"}

Sites == {f \in [ProfileLinks -> {"PageAl", "PageCy", "NotFound", "NoContent"}] :
             \A l \in ProfileLinks : f[l] \in PagesAt(l)}

\* ------------------------------------------------------------------------
\* The parsing and joining steps of the roster builder
\* ------------------------------------------------------------------------

\* scrape_detailed_senator_info without the look at the first heading
ParseProfileNoHeadingCheck(page) ==
    IF ~page.content THEN Empty4
    ELSE LET phones == extract_phones_from_content(page.paras)
         IN  <<extract_email_from_content(page.paras), phones[1], phones[2],
               extract_committees_from_content(page.paras)>>

\* the part of scrape_detailed_senator_info after the response arrived:
\* returns <<email, home_phone, state_house_phone, committees>>
ParseProfile(page) ==
    IF ~page.content THEN Empty4
    ELSE IF page.h1s # << >> /\ Contains(page.h1s[1], PageNotFound) THEN Empty4
    ELSE LET phones == extract_phones_from_content(page.paras)
         IN  <<extract_email_from_content(page.paras), phones[1], phones[2],
               extract_committees_from_content(page.paras)>>

\* municipalities.append((district, town, member, party, profile_link)),
\* unless the district or the member is empty
MunicipalityFrom(r, profile_link) ==
    IF r[1] = EmptyText \/ r[3] = EmptyText THEN << >>
    ELSE << <<r[1], r[2], r[3], r[4], profile_link>> >>

\* a paragraph without a link given the site root as its link
FirstHrefOrRoot(hrefs) == IF hrefs # << >> THEN hrefs[1] ELSE "/"

\* p_tag.find("a", href=True): the href of the first link, "" with no link
FirstHref(hrefs) == IF hrefs # << >> THEN hrefs[1] ELSE ""

\* what one paragraph of the index page appends to municipalities: nothing,
\* or one tuple <<district, town, member, party, profile_link>>
MunicipalityOf(p) ==
    IF ~Contains(p.text, SenateDistrict) THEN << >>
    ELSE MunicipalityFrom(extract_senator_from_string(p.text), FirstHref(p.hrefs))

\* MunicipalityOf of each paragraph of IndexParagraphs, computed once
IndexMunicipality ==
    <<MunicipalityOf(IndexParagraphs[1]), MunicipalityOf(IndexParagraphs[2]),
      MunicipalityOf(IndexParagraphs[3]), MunicipalityOf(IndexParagraphs[4]),
      MunicipalityOf(IndexParagraphs[5])>>

RECURSIVE CollectParagraphs(_)
CollectParagraphs(paras) ==
    IF paras = << >> THEN << >>
    ELSE IndexMunicipality[paras[1]] \o CollectParagraphs(Tail(paras))

\* the part of collect_municipalities_with_senators after the response arrived
ParseIndex(page) ==
    IF ~page.content THEN << >> ELSE CollectParagraphs(page.paras)

\* the elements of seq without repetition, in the order they first occur
\* (the key order of a dict filled in that order)
RECURSIVE FirstSeen(_)
FirstSeen(seq) ==
    IF seq = << >> THEN << >>
    ELSE LET front == FirstSeen(SubSeq(seq, 1, Len(seq) - 1))
             last  == seq[Len(seq)]
         IN  IF \E i \in 1..Len(front) : front[i] = last
             THEN front
             ELSE Append(front, last)

\* the most common link with ties going to the one counted last
MostCommonLinkLastSeen(links) ==
    LET count(l) == Cardinality({i \in 1..Len(links) : links[i] = l})
        best == {i \in 1..Len(links) :
                    \A j \in 1..Len(links) : count(links[j]) <= count(links[i])}
    IN  links[MaxOf(best)]

\* Counter(links).most_common(1)[0][0] for a non-empty list: with the highest
\* count, the one counted first
MostCommonLink(links) ==
    LET count(l) == Cardinality({i \in 1..Len(links) : links[i] = l})
        best == {i \in 1..Len(links) :
                    \A j \in 1..Len(links) : count(links[j]) <= count(links[i])}
    IN  links[MinOf(best)]

\* senator_links[member]: the non-empty links of the member's records
LinksOf(records, member) ==
    LET linked(rec) == rec[3] = member /\ rec[5] # ""
        picked == SelectSeq(records, linked)
    IN  [i \in 1..Len(picked) |-> picked[i][5]]

\* one item per record instead of one per member: no deduplication
SenatorsWithLinksPerRecord(records) ==
    [i \in 1..Len(records) |-> <<records[i][3], records[i][5]>>]

\* the dict member -> link, as the list of its items <<member, link>>
get_unique_senators_with_links(records) ==
    LET members == FirstSeen([i \in 1..Len(records) |-> records[i][3]])
    IN  [n \in 1..Len(members) |->
            LET links == LinksOf(records, members[n])
            IN  <<members[n], IF links # << >> THEN MostCommonLink(links) ELSE "">>]

\* a lookup that always misses
DetailsGetDefault(details, member) == Empty4

\* senator_details.get(member, ("", "", "", ""))
DetailsGet(details, member) ==
    IF member \in DOMAIN details THEN details[member] ELSE Empty4

\* the join loop walking the records last to first
JoinRowsReversed(records, details) ==
    [i \in 1..Len(records) |->
        LET rec == records[Len(records) + 1 - i]
        IN  <<rec[1], rec[2], rec[3], rec[4]>> \o DetailsGet(details, rec[3])]

\* the join loop with senator_details.pop(member, ...): only the first row of a
\* member finds its details
JoinRowsPop(records, details) ==
    [i \in 1..Len(records) |->
        LET rec == records[i]
        IN  <<rec[1], rec[2], rec[3], rec[4]>> \o
            (IF \E j \in 1..(i - 1) : records[j][3] = rec[3]
             THEN Empty4
             ELSE DetailsGet(details, rec[3]))]

\* the join loop of parse_senators_page
JoinRows(records, details) ==
    [i \in 1..Len(records) |->
        LET rec == records[i]
        IN  <<rec[1], rec[2], rec[3], rec[4]>> \o DetailsGet(details, rec[3])]

\* ------------------------------------------------------------------------
\* One run of main()
\* ------------------------------------------------------------------------

\* REQUEST_DELAY: seconds slept before a profile request
REQUEST_DELAY == 5

\* Retry(total=3, status_forcelist=[429, 500, 502, 503, 504])
RetryTotal == 3

\* SenateURL.MunicipalityListPath
MunicipalityListPath == "/senate/find-your-state-senator/9392"

OutputPath == "senate_municipality_data.csv"

HeaderRow ==
    <<<<"D", "i", "s", "t", "r", "i", "c", "t">>,
      <<"T", "o", "w", "n">>,
      <<"M", "e", "m", "b", "e", "r">>,
      <<"P", "a", "r", "t", "y">>,
      <<"E", "m", "a", "i", "l">>,
      <<"H", "o", "m", "e", " ", "P", "h", "o", "n", "e">>,
      <<"S", "t", "a", "t", "e", " ", "H", "o", "u", "s", "e", " ", "P", "h", "o", "n", "e">>,
      <<"C", "o", "m", "m", "i", "t", "t", "e", "e", "s">>>>

\* the check skipped: an empty result is never reported
NoResultsIgnored(unique) == FALSE

\* parse_senators_page: if not unique_senators
NoResults(unique) == unique = << >>

\* the output file opened with mode "w" before the scraping starts
FileTruncatedFirst(rows) == << >>

\* the file on disk while parse_senators_page runs: main opens it only after
\* parse_senators_page has returned
FileWhileScraping(rows) == rows

\* the rows of an output file left by an earlier run
PriorFile == <<HeaderRow, <<<<"1">>, <<"Z", "z">>, <<"O", "l", "d">>, <<"R">>,
                            EmptyText, EmptyText, EmptyText, EmptyText>>>>

VARIABLES
    index,              \* the index page the site serves
    site,               \* the page the site serves at each profile path
    file,               \* the rows of senate_municipality_data.csv on disk
    pc,                 \* where the run stands
    retries,            \* retries the http client has spent on the request in flight
    municipalities,     \* parse_senators_page: municipalities
    unique_senators,    \* parse_senators_page: unique_senators, as its items
    pos,                \* scrape_all_unique_senators: the item the loop stands at
    senator_details,    \* scrape_all_unique_senators: senator_details
    senators,           \* parse_senators_page: senators
    log,                \* the requests, sleeps and file opens made so far
    error,              \* the exception that ended the run, "" while there is none
    line,               \* a paragraph text handed to extract_senator_from_string
    parts,              \* the fields and the gaps that line is built from
    result              \* what extract_senator_from_string returned for line

runVars == <<index, site, file, pc, retries, municipalities, unique_senators, pos,
             senator_details, senators, log, error>>

extractVars == <<line, parts, result>>

vars == <<runVars, extractVars>>

Event(op, path, member, secs) ==
    [op |-> op, path |-> path, member |-> member, secs |-> secs]

\* the run raises: nothing after the raise statement runs
Raise(msg) ==
    /\ pc' = "raised"
    /\ error' = msg

ExtractIdle ==
    /\ line = EmptyText
    /\ parts = << >>
    /\ result = Empty4

Init ==
    /\ index \in IndexPages
    /\ site \in Sites
    /\ file = PriorFile
    /\ pc = "start"
    /\ retries = 0
    /\ municipalities = << >>
    /\ unique_senators = << >>
    /\ pos = 1
    /\ senator_details = << >>
    /\ senators = << >>
    /\ log = << >>
    /\ error = ""
    /\ ExtractIdle

\* collect_municipalities_with_senators: http.request("GET", page_url)
collect_request ==
    /\ pc = "start"
    /\ log' = Append(log, Event("GET", MunicipalityListPath, EmptyText, 0))
    /\ pc' = "index_wait"
    /\ retries' = 0
    /\ file' = FileWhileScraping(file)
    /\ UNCHANGED <<index, site, municipalities, unique_senators, pos,
                   senator_details, senators, error>>

\* the request in flight is answered with a status of status_forcelist and
\* the client has retries left: it tries again
http_retry ==
    /\ pc \in {"index_wait", "profile_wait"}
    /\ retries < RetryTotal
    /\ retries' = retries + 1
    /\ UNCHANGED <<index, site, file, pc, municipalities, unique_senators, pos,
                   senator_details, senators, log, error>>

\* the same with no retry left: http.request raises MaxRetryError, which
\* nothing catches
http_exhausted ==
    /\ pc \in {"index_wait", "profile_wait"}
    /\ retries = RetryTotal
    /\ Raise("MaxRetryError")
    /\ UNCHANGED <<index, site, file, retries, municipalities, unique_senators, pos,
                   senator_details, senators, log>>

\* the index page arrives: the rest of collect_municipalities_with_senators,
\* get_unique_senators_with_links and the check for an empty result
index_response ==
    /\ pc = "index_wait"
    /\ municipalities' = ParseIndex(index)
    /\ unique_senators' = get_unique_senators_with_links(municipalities')
    /\ IF NoResults(unique_senators')
       THEN Raise("0 results found.")
       ELSE /\ pc' = IF unique_senators' = << >> THEN "join" ELSE "scrape"
            /\ error' = error
    /\ pos' = 1
    /\ UNCHANGED <<index, site, file, retries, senator_details, senators, log>>

\* where the run goes once item pos of unique_senators is dealt with
AfterItem == IF pos = Len(unique_senators) THEN "join" ELSE "scrape"

\* an item with no profile link passed over without an entry for it
scrape_no_link_no_entry ==
    /\ pc = "scrape"
    /\ unique_senators[pos][2] = ""
    /\ pc' = AfterItem
    /\ pos' = pos + 1
    /\ UNCHANGED <<index, site, file, retries, municipalities, unique_senators,
                   senator_details, senators, log, error>>

\* scrape_all_unique_senators: an item with no profile link
scrape_no_link ==
    /\ pc = "scrape"
    /\ unique_senators[pos][2] = ""
    /\ senator_details' =
          [m \in DOMAIN senator_details \cup {unique_senators[pos][1]} |->
              IF m = unique_senators[pos][1] THEN Empty4 ELSE senator_details[m]]
    /\ pc' = AfterItem
    /\ pos' = pos + 1
    /\ UNCHANGED <<index, site, file, retries, municipalities, unique_senators,
                   senators, log, error>>

\* the request sent without the sleep before it
scrape_request_without_sleep ==
    /\ pc = "scrape"
    /\ unique_senators[pos][2] # ""
    /\ log' = Append(log, Event("GET", unique_senators[pos][2], unique_senators[pos][1], 0))
    /\ pc' = "profile_wait"
    /\ retries' = 0
    /\ UNCHANGED <<index, site, file, municipalities, unique_senators, pos,
                   senator_details, senators, error>>

\* scrape_all_unique_senators: an item with a link; scrape_detailed_senator_info
\* sleeps and sends the request
scrape_request ==
    /\ pc = "scrape"
    /\ unique_senators[pos][2] # ""
    /\ log' = log \o <<Event("sleep", "", unique_senators[pos][1], REQUEST_DELAY),
                       Event("GET", unique_senators[pos][2], unique_senators[pos][1], 0)>>
    /\ pc' = "profile_wait"
    /\ retries' = 0
    /\ UNCHANGED <<index, site, file, municipalities, unique_senators, pos,
                   senator_details, senators, error>>

\* the page a path answers with; a path the index never links is not found
Served(link) == IF link \in DOMAIN site THEN site[link] ELSE "NotFound"

\* ParseProfile of each page the site may serve, computed once
ProfileFields ==
    [PageAl    |-> ParseProfile(ProfilePage("PageAl")),
     PageCy    |-> ParseProfile(ProfilePage("PageCy")),
     NotFound  |-> ParseProfile(ProfilePage("NotFound")),
     NoContent |-> ParseProfile(ProfilePage("NoContent"))]

\* the profile page arrives: the rest of scrape_detailed_senator_info, and the
\* assignment to senator_details
profile_response ==
    /\ pc = "profile_wait"
    /\ senator_details' =
          [m \in DOMAIN senator_details \cup {unique_senators[pos][1]} |->
              IF m = unique_senators[pos][1]
              THEN ProfileFields[Served(unique_senators[pos][2])]
              ELSE senator_details[m]]
    /\ pc' = AfterItem
    /\ pos' = pos + 1
    /\ UNCHANGED <<index, site, file, retries, municipalities, unique_senators,
                   senators, log, error>>

\* parse_senators_page: the join loop, and the return to main
join_rows ==
    /\ pc = "join"
    /\ senators' = JoinRows(municipalities, senator_details)
    /\ pc' = "write"
    /\ UNCHANGED <<index, site, file, retries, municipalities, unique_senators, pos,
                   senator_details, log, error>>

\* main: the file is opened with mode "w" and the header and the rows written
write_csv ==
    /\ pc = "write"
    /\ log' = Append(log, Event("open", OutputPath, EmptyText, 0))
    /\ file' = <<HeaderRow>> \o senators
    /\ pc' = "done"
    /\ UNCHANGED <<index, site, retries, municipalities, unique_senators, pos,
                   senator_details, senators, error>>

Next ==
    \/ (collect_request /\ UNCHANGED extractVars)
    \/ (http_retry /\ UNCHANGED extractVars)
    \/ (http_exhausted /\ UNCHANGED extractVars)
    \/ (index_response /\ UNCHANGED extractVars)
    \/ (scrape_no_link /\ UNCHANGED extractVars)
    \/ (scrape_request /\ UNCHANGED extractVars)
    \/ (profile_response /\ UNCHANGED extractVars)
    \/ (join_rows /\ UNCHANGED extractVars)
    \/ (write_csv /\ UNCHANGED extractVars)

Spec == Init /\ [][Next]_vars

\* ------------------------------------------------------------------------
\* extract_senator_from_string on the lines of the index page's format,
\* "Town - Senate District X - Name (Party-County)", with the white space
\* between their words changed step by step
\* ------------------------------------------------------------------------

\* how many changes are made to the white space of one line
MaxEdits == 2

\* the gaps of a line, first to last: inside the town, town to hyphen, hyphen
\* to Senate, Senate to District, District to number, number to hyphen,
\* hyphen to name, inside the name, name to parenthesis
Gaps == 1..9

TownGap == 2

WordSenate == <<"S", "e", "n", "a", "t", "e">>

WordDistrict == <<"D", "i", "s", "t", "r", "i", "c", "t">>

\* the fields of the lines the tests of extract_senator_from_string give it,
\* shortened: a town and a name of two words each
WellFormedParts ==
    [town   : {<<<<"W", "e">>, <<"A", "b">>>>, <<<<"C", "y">>, <<"P", "l">>>>},
     number : {<<"5">>, <<"2", "3">>},
     name   : {<<<<"A", ".">>, <<"B", "a">>>>},
     party  : {<<"R">>, <<"I">>},
     county : {<<"O", "x">>},
     gaps   : {[g \in Gaps |-> <<" ">>]},
     edits  : {0}]

\* the line the fields and gaps spell
Render(f) ==
    f.town[1] \o f.gaps[1] \o f.town[2] \o f.gaps[2] \o <<"-">> \o f.gaps[3] \o
    WordSenate \o f.gaps[4] \o WordDistrict \o f.gaps[5] \o f.number \o
    f.gaps[6] \o <<"-">> \o f.gaps[7] \o f.name[1] \o f.gaps[8] \o f.name[2] \o
    f.gaps[9] \o <<"(">> \o f.party \o <<"-">> \o f.county \o <<")">>

\* the tuple the tests expect for the fields: (district, town, member, party)
Expected(f) ==
    <<f.number, f.town[1] \o <<" ">> \o f.town[2],
      f.name[1] \o <<" ">> \o f.name[2], f.party>>

\* the run of main() does not take part
RunIdle ==
    /\ index = [content |-> FALSE, paras |-> << >>]
    /\ site = [l \in ProfileLinks |-> "NoContent"]
    /\ file = PriorFile
    /\ pc = "extract"
    /\ retries = 0
    /\ municipalities = << >>
    /\ unique_senators = << >>
    /\ pos = 1
    /\ senator_details = << >>
    /\ senators = << >>
    /\ log = << >>
    /\ error = ""

InitExtract ==
    /\ RunIdle
    /\ parts \in WellFormedParts
    /\ line = Render(parts)
    /\ result = extract_senator_from_string(line)

\* the line with the gaps changed is handed to extract_senator_from_string
Extract(gaps) ==
    /\ parts.edits < MaxEdits
    /\ parts' = [parts EXCEPT !.gaps = gaps, !.edits = @ + 1]
    /\ line' = Render(parts')
    /\ result' = extract_senator_from_string(line')

\* one more space in a gap
widen_gap ==
    \E g \in Gaps : Extract([parts.gaps EXCEPT ![g] = Append(@, " ")])

\* a line break in place of a gap
break_gap ==
    \E g \in Gaps : Extract([parts.gaps EXCEPT ![g] = <<"\n">>])

\* the hyphen directly after the town
close_town_hyphen ==
    Extract([parts.gaps EXCEPT ![TownGap] = EmptyText])

NextExtract ==
    \/ (widen_gap /\ UNCHANGED runVars)
    \/ (break_gap /\ UNCHANGED runVars)
    \/ (close_town_hyphen /\ UNCHANGED runVars)

SpecExtract == InitExtract /\ [][NextExtract]_vars

\* ------------------------------------------------------------------------
\* extract_senator_from_string on damaged lines: lines of the index page's
\* format with some of their pieces missing
\* ------------------------------------------------------------------------

\* how many pieces of one line go missing
MaxCuts == 2

\* the pieces a line is written from, first to last
Pieces(f) ==
    <<f.town[1], f.gaps[1], f.town[2], f.gaps[2], <<"-">>, f.gaps[3],
      WordSenate, f.gaps[4], WordDistrict, f.gaps[5], f.number, f.gaps[6],
      <<"-">>, f.gaps[7], f.name[1], f.gaps[8], f.name[2], f.gaps[9],
      <<"(">>, f.party, <<"-">>, f.county, <<")">>>>

\* the pieces that are words or numbers, white space, and punctuation
WordPieces == {1, 3, 7, 9, 11, 15, 17, 20, 22}

GapPieces == {2, 4, 6, 8, 10, 12, 14, 16, 18}

MarkPieces == {5, 13, 19, 21, 23}

RECURSIVE RenderFrom(_, _, _)
RenderFrom(pieces, cut, k) ==
    IF k > Len(pieces) THEN EmptyText
    ELSE (IF k \in cut THEN EmptyText ELSE pieces[k]) \o RenderFrom(pieces, cut, k + 1)

\* the line the pieces outside cut spell
RenderCut(f, cut) == RenderFrom(Pieces(f), cut, 1)

InitDamaged ==
    /\ RunIdle
    /\ parts \in {[fields |-> f, cut |-> {}] : f \in WellFormedParts}
    /\ line = RenderCut(parts.fields, parts.cut)
    /\ result = extract_senator_from_string(line)

\* the line without piece k is handed to extract_senator_from_string
ExtractWithout(k) ==
    /\ Cardinality(parts.cut) < MaxCuts
    /\ k \notin parts.cut
    /\ parts' = [parts EXCEPT !.cut = @ \cup {k}]
    /\ line' = RenderCut(parts'.fields, parts'.cut)
    /\ result' = extract_senator_from_string(line')

cut_word == \E k \in WordPieces : ExtractWithout(k)

cut_gap == \E k \in GapPieces : ExtractWithout(k)

cut_mark == \E k \in MarkPieces : ExtractWithout(k)

NextDamaged ==
    \/ (cut_word /\ UNCHANGED runVars)
    \/ (cut_gap /\ UNCHANGED runVars)
    \/ (cut_mark /\ UNCHANGED runVars)

SpecDamaged == InitDamaged /\ [][NextDamaged]_vars

\* ------------------------------------------------------------------------
\* The three field extractors on profile pages put together paragraph by
\* paragraph
\* ------------------------------------------------------------------------

\* the most paragraphs the content region of a profile page holds
MaxProfileParagraphs == 3

TextBadEmail == <<"E", "m", "a", "i", "l", ":", " ", "a", "l", " ", "[", "a", "t",
      "]", " ", "m", "e", ".", "g", "o", "v">>

TextHomeState == <<"H", "o", "m", "e", " ", "2", "0", "7", "-", "5", "5", "5", "-",
      "0", "1", "0", "3", " ", "S", "t", "a", "t", "e", " ", "H", "o", "u",
      "s", "e", " ", "2", "0", "7", "-", "2", "8", "7", "-", "1", "5", "1",
      "5">>

TextBlank == <<" ", " ">>

\* the paragraphs a profile page is put together from
ProfileParagraphs ==
    <<Para(TextBadEmail, TRUE, FALSE, << >>),
      Para(TextWebmaster, FALSE, FALSE, << >>),
      Para(TextAlHome, FALSE, TRUE, << >>),
      Para(TextCyCell, FALSE, TRUE, << >>),
      Para(TextHomeState, FALSE, FALSE, << >>),
      Para(TextCommittees, TRUE, FALSE, << >>),
      Para(TextLabor, FALSE, FALSE, << >>),
      Para(TextService, FALSE, TRUE, << >>),
      Para(TextTaxation, FALSE, FALSE, << >>),
      Para(TextAlState, TRUE, FALSE, << >>),
      Para(TextBlank, FALSE, FALSE, << >>),
      Para(TextAlEmail, TRUE, FALSE, <<[href |-> HrefAl, text |-> AddrAl]>>)>>

EmailParagraphs == {1, 2, 12}

PhoneParagraphs == {3, 4, 5, 10}

CommitteeParagraphs == {6, 7, 8, 9}

BlankParagraphs == {11}

\* the content region holding the paragraphs ids names
ContentOf(ids) ==
    [content |-> TRUE, h1s |-> << >>,
     paras |-> [i \in 1..Len(ids) |-> ProfileParagraphs[ids[i]]]]

InitProfile ==
    /\ RunIdle
    /\ parts = << >>
    /\ line = EmptyText
    /\ result = ParseProfile(ContentOf(parts))

\* the page with one more paragraph is handed to the extractors
ScrapeWith(id) ==
    /\ Len(parts) < MaxProfileParagraphs
    /\ parts' = Append(parts, id)
    /\ line' = line
    /\ result' = ParseProfile(ContentOf(parts'))

add_email_paragraph == \E id \in EmailParagraphs : ScrapeWith(id)

add_phone_paragraph == \E id \in PhoneParagraphs : ScrapeWith(id)

add_committee_paragraph == \E id \in CommitteeParagraphs : ScrapeWith(id)

add_blank_paragraph == \E id \in BlankParagraphs : ScrapeWith(id)

NextProfile ==
    \/ (add_email_paragraph /\ UNCHANGED runVars)
    \/ (add_phone_paragraph /\ UNCHANGED runVars)
    \/ (add_committee_paragraph /\ UNCHANGED runVars)
    \/ (add_blank_paragraph /\ UNCHANGED runVars)

SpecProfile == InitProfile /\ [][NextProfile]_vars

\* ------------------------------------------------------------------------
\* What a run fetched, and what the index page listed
\* ------------------------------------------------------------------------

\* every character a page of the site is written with
Characters ==
    Letters \cup Digits \cup Whitespace \cup
    {"@", ".", "-", "(", ")", ",", ";", ":", "/", "#", "_", "%", "+"}

\* a str, as opposed to None or a missing value
IsText(t) == t \in Seq(Characters)

\* the positions in log of the profile requests
AllProfileGets ==
    {i \in 1..Len(log) : log[i].op = "GET" /\ log[i].path # MunicipalityListPath}

\* the positions in log of the profile requests made for a member
ProfileGets(member) == {i \in AllProfileGets : log[i].member = member}

\* the member names of the collected records
Members == {municipalities[i][3] : i \in 1..Len(municipalities)}

\* the positions of the member's records that carry the link
RecordsWith(member, link) ==
    {i \in 1..Len(municipalities) :
        municipalities[i][3] = member /\ municipalities[i][5] = link}

\* the positions of the member's records that carry some link
LinkedRecords(member) ==
    {i \in 1..Len(municipalities) :
        municipalities[i][3] = member /\ municipalities[i][5] # ""}

\* the positions of the index paragraphs that match the roster pattern
RosterParagraphs ==
    {k \in 1..Len(index.paras) : IndexMunicipality[index.paras[k]] # << >>}

\* the record of roster paragraph k, and the number of its row
RecordOf(k) == IndexMunicipality[index.paras[k]][1]

RowOf(k) == Cardinality({j \in RosterParagraphs : j <= k})

\* some roster paragraph of the member contains a hyperlink
ParagraphLinked(member) ==
    \E k \in RosterParagraphs :
        /\ RecordOf(k)[3] = member
        /\ IndexParagraphs[index.paras[k]].hrefs # << >>

\* the index page lists no senator
ZeroRoster == ~index.content \/ RosterParagraphs = {}

\* the link unique_senators holds for a member
CanonicalLink(member) ==
    LET n == CHOOSE n \in 1..Len(unique_senators) : unique_senators[n][1] = member
    IN  unique_senators[n][2]

\* the profile fields of row i
ProfileOf(i) == SubSeq(senators[i], 5, 8)

\* a page without a content region, or whose first heading says Page Not Found
BadPage(name) ==
    \/ ~ProfilePage(name).content
    \/ /\ ProfilePage(name).h1s # << >>
       /\ Contains(ProfilePage(name).h1s[1], PageNotFound)

\* what the two senators' pages say, read off the pages by hand
ExpectedFields(name) ==
    CASE name = "PageAl" ->
            <<<<"a", "l", "@", "m", "e", ".", "g", "o", "v">>,
              <<"2", "0", "7", "-", "5", "5", "5", "-", "0", "1", "0", "1">>,
              <<"(", "2", "0", "7", ")", " ", "2", "8", "7", "-", "1", "5", "1", "5">>,
              <<"L", "a", "b", "o", "r">>>>
      [] name = "PageCy" ->
            <<<<"c", "y", "@", "m", "e", ".", "g", "o", "v">>,
              <<"2", "0", "7", ".", "5", "5", "5", ".", "0", "1", "0", "2">>,
              EmptyText,
              <<"T", "a", "x", "a", "t", "i", "o", "n">>>>
      [] OTHER -> Empty4

\* what a member's rows must carry: nothing without a canonical link, else
\* what the page served at that link says
ExpectedOf(member) ==
    IF CanonicalLink(member) = "" THEN Empty4
    ELSE ExpectedFields(Served(CanonicalLink(member)))

\* ------------------------------------------------------------------------
\* C1
\* ------------------------------------------------------------------------

\* C1: parse_senators_page returns exactly one row per municipality record
\* (not one per senator): the n-th roster paragraph of the document gives the
\* n-th record and the n-th row, and the row's district, town, member and
\* party are those of the record.
C1_OneRowPerRecordInOrder ==
    pc \in {"write", "done"} =>
        /\ Len(senators) = Cardinality(RosterParagraphs)
        /\ Len(municipalities) = Cardinality(RosterParagraphs)
        /\ \A k \in RosterParagraphs :
              /\ municipalities[RowOf(k)] = RecordOf(k)
              /\ SubSeq(senators[RowOf(k)], 1, 4) = SubSeq(RecordOf(k), 1, 4)

\* a finished run over three paragraphs, the middle one no roster line, the
\* other two naming the same senator for different towns: two rows
C1_Witness ==
    /\ pc = "done"
    /\ Len(index.paras) = 3
    /\ RosterParagraphs = {1, 3}
    /\ Len(senators) = 2
    /\ senators[1][3] = senators[2][3]
    /\ senators[1][2] # senators[2][2]

\* ------------------------------------------------------------------------
\* C2
\* ------------------------------------------------------------------------

\* C2 as stated: in a finished run every unique member has had exactly one
\* profile request.
C2_ExactlyOneGetPerMember ==
    pc = "done" => \A m \in Members : Cardinality(ProfileGets(m)) = 1

\* C2, amended: every profile request is made for a member of the index page;
\* no member ever has more than one, however many records name it; and once
\* the scraping loop is through, a member has exactly one if one of its
\* records carries a link and none otherwise.
C2_AtMostOneGetPerMember ==
    /\ \A i \in AllProfileGets : log[i].member \in Members
    /\ \A m \in Members : Cardinality(ProfileGets(m)) <= 1
    /\ pc \in {"join", "write", "done"} =>
          \A m \in Members :
              Cardinality(ProfileGets(m)) = IF LinkedRecords(m) # {} THEN 1 ELSE 0

\* a finished run in which a member named by three records, two of them
\* linked, was requested once
C2_Witness ==
    /\ pc = "done"
    /\ \E m \in Members :
          /\ Cardinality(RecordsWith(m, "") \cup LinkedRecords(m)) = 3
          /\ Cardinality(LinkedRecords(m)) = 2
          /\ Cardinality(ProfileGets(m)) = 1

\* ------------------------------------------------------------------------
\* C3
\* ------------------------------------------------------------------------

\* C3: in the rows parse_senators_page returns, two rows with the same member
\* carry the same four profile fields, whatever links their own paragraphs
\* had, and every row has eight fields, each of them a str.
C3_ProfileFieldsByMember ==
    pc \in {"write", "done"} =>
        /\ \A i, j \in 1..Len(senators) :
              senators[i][3] = senators[j][3] => ProfileOf(i) = ProfileOf(j)
        /\ \A i \in 1..Len(senators) :
              /\ Len(senators[i]) = 8
              /\ \A k \in 1..8 : IsText(senators[i][k])

\* two rows of one member whose paragraphs link to different paths, which
\* serve different pages, and the rows carry an email address
C3_Witness ==
    /\ pc = "done"
    /\ \E i, j \in 1..Len(senators) :
          /\ senators[i][3] = senators[j][3]
          /\ municipalities[i][5] # ""
          /\ municipalities[j][5] # ""
          /\ Served(municipalities[i][5]) # Served(municipalities[j][5])
          /\ senators[j][5] # EmptyText

\* ------------------------------------------------------------------------
\* C4
\* ------------------------------------------------------------------------

\* C4: when the index page lists no senator (no content region, or no
\* paragraph matching the roster pattern), the run gets no further than
\* raising: the answer to the index request ends it with "0 results found.",
\* and no profile request is ever made.
C4_ZeroSenatorsRaises ==
    ZeroRoster =>
        /\ pc \in {"start", "index_wait", "raised"}
        /\ AllProfileGets = {}
        /\ pc = "raised" =>
              \/ error = "MaxRetryError" /\ retries = RetryTotal
              \/ error = "0 results found." /\ unique_senators = << >>

\* an index page with a content region and paragraphs, none a roster line:
\* the run raised "0 results found."
C4_Witness ==
    /\ pc = "raised"
    /\ error = "0 results found."
    /\ index.content
    /\ Len(index.paras) >= 2
    /\ Len(log) = 1

\* ------------------------------------------------------------------------
\* C5
\* ------------------------------------------------------------------------

\* C5: the output file is opened once, as the last thing the run does, after
\* the index request and the request for every linked member were answered;
\* until then, and for good in a run that raised, the file of an earlier run
\* is on disk unchanged.
C5_FileWrittenLast ==
    /\ \A i \in 1..Len(log) : log[i].op = "open" => i = Len(log) /\ pc = "done"
    /\ pc # "done" => file = PriorFile
    /\ pc = "done" =>
          /\ log[Len(log)].op = "open"
          /\ log[1].op = "GET" /\ log[1].path = MunicipalityListPath
          /\ \A m \in Members :
                /\ m \in DOMAIN senator_details
                /\ LinkedRecords(m) # {} => ProfileGets(m) # {}
          /\ file = <<HeaderRow>> \o senators

\* the request for the second senator ran out of retries after the first
\* senator's page had been scraped: the run raised, the old file is there
C5_Witness ==
    /\ pc = "raised"
    /\ error = "MaxRetryError"
    /\ DOMAIN senator_details # {}
    /\ Cardinality(AllProfileGets) = 2
    /\ file = PriorFile

\* ------------------------------------------------------------------------
\* C6
\* ------------------------------------------------------------------------

\* C6: a page without a content region, and a page whose first heading
\* contains "Page Not Found", scrape to four empty fields; such a page does
\* not end the run (a run raises only for an empty roster or for exhausted
\* retries); every linked member is still requested; and each row carries
\* what its member's page says: nothing for a bad page, the page's details
\* for a good one.
C6_BadPageNotFatal ==
    /\ \A name \in {"PageAl", "PageCy", "NotFound", "NoContent"} :
          BadPage(name) => ProfileFields[name] = Empty4
    /\ pc = "raised" =>
          \/ error = "MaxRetryError" /\ retries = RetryTotal
          \/ error = "0 results found." /\ ZeroRoster
    /\ \A m \in DOMAIN senator_details : senator_details[m] = ExpectedOf(m)
    /\ pc \in {"join", "write", "done"} =>
          \A m \in Members : LinkedRecords(m) # {} => ProfileGets(m) # {}
    /\ pc \in {"write", "done"} =>
          /\ Len(senators) = Len(municipalities)
          /\ \A i \in 1..Len(senators) : ProfileOf(i) = ExpectedOf(senators[i][3])

\* the first senator's page was bad, the second senator was still requested:
\* the first row has empty profile fields and the last row has an email
C6_Witness ==
    /\ pc = "done"
    /\ Len(unique_senators) = 2
    /\ unique_senators[1][2] # ""
    /\ BadPage(Served(unique_senators[1][2]))
    /\ Cardinality(AllProfileGets) = 2
    /\ senators[1][3] = unique_senators[1][1]
    /\ ProfileOf(1) = Empty4
    /\ senators[Len(senators)][5] # EmptyText

\* ------------------------------------------------------------------------
\* C7
\* ------------------------------------------------------------------------

\* C7: unique_senators has exactly one item per member name; a member none
\* of whose records has a link maps to ""; any other member maps to a link
\* of its records that no other link of its records outnumbers, and among
\* the links with that count to the one that occurs first in the document.
C7_MostCommonLinkFirstSeen ==
    pc \notin {"start", "index_wait"} =>
        /\ Len(unique_senators) = Cardinality(Members)
        /\ \A m \in Members :
              \E n \in 1..Len(unique_senators) : unique_senators[n][1] = m
        /\ \A n \in 1..Len(unique_senators) :
              IF LinkedRecords(unique_senators[n][1]) = {}
              THEN unique_senators[n][2] = ""
              ELSE /\ RecordsWith(unique_senators[n][1], unique_senators[n][2]) # {}
                   /\ unique_senators[n][2] # ""
                   /\ \A i \in LinkedRecords(unique_senators[n][1]) :
                         \/ Cardinality(RecordsWith(unique_senators[n][1],
                                                    municipalities[i][5]))
                              < Cardinality(RecordsWith(unique_senators[n][1],
                                                        unique_senators[n][2]))
                         \/ /\ Cardinality(RecordsWith(unique_senators[n][1],
                                                       municipalities[i][5]))
                                 = Cardinality(RecordsWith(unique_senators[n][1],
                                                           unique_senators[n][2]))
                            /\ MinOf(RecordsWith(unique_senators[n][1],
                                                 unique_senators[n][2])) <= i

\* two records of one member with different links, one each: the link of
\* the first record is the canonical one
C7_Witness ==
    /\ pc = "scrape"
    /\ Len(municipalities) = 2
    /\ municipalities[1][3] = municipalities[2][3]
    /\ municipalities[1][5] = "/d4x"
    /\ municipalities[2][5] = "/d4"
    /\ unique_senators = <<<<municipalities[1][3], "/d4x">>>>

\* ------------------------------------------------------------------------
\* C8
\* ------------------------------------------------------------------------

\* C8 as stated: the row of a roster paragraph without a hyperlink has empty
\* profile fields.
C8_NoLinkRowEmpty ==
    pc = "done" =>
        \A k \in RosterParagraphs :
            IndexParagraphs[index.paras[k]].hrefs = << >> =>
                ProfileOf(RowOf(k)) = Empty4

\* C8, amended: a roster paragraph without a hyperlink yields its row at its
\* place in the document; the row's profile fields are those scraped for its
\* member, which are empty when no paragraph of the member has a hyperlink;
\* and such a member is never requested.
C8_NoLinkRowJoinsByMember ==
    /\ \A k \in RosterParagraphs :
          ~ParagraphLinked(RecordOf(k)[3]) => ProfileGets(RecordOf(k)[3]) = {}
    /\ pc = "done" =>
          \A k \in RosterParagraphs :
              IndexParagraphs[index.paras[k]].hrefs = << >> =>
                  /\ RowOf(k) <= Len(senators)
                  /\ SubSeq(senators[RowOf(k)], 1, 4) = SubSeq(RecordOf(k), 1, 4)
                  /\ ProfileOf(RowOf(k)) = senator_details[RecordOf(k)[3]]
                  /\ ~ParagraphLinked(RecordOf(k)[3]) =>
                        ProfileOf(RowOf(k)) = Empty4

\* a senator whose only paragraph has no hyperlink, listed after a senator
\* who was requested: the row is there, empty, and no request was made for it
C8_Witness ==
    /\ pc = "done"
    /\ Len(senators) = 2
    /\ municipalities[1][5] # ""
    /\ municipalities[2][5] = ""
    /\ senators[1][3] # senators[2][3]
    /\ ProfileOf(2) = Empty4
    /\ ProfileGets(senators[2][3]) = {}
    /\ Cardinality(AllProfileGets) = 1

\* ------------------------------------------------------------------------
\* C9
\* ------------------------------------------------------------------------

\* the rows of the single-pass district mode, as the specification describes
\* it: each roster paragraph gives a row, joined with what the page at the
\* paragraph's own link says, or with empty fields if it has no link
DistrictModeRows ==
    [i \in 1..Len(ParseIndex(index)) |->
        SubSeq(ParseIndex(index)[i], 1, 4) \o
        (IF ParseIndex(index)[i][5] = "" THEN Empty4
         ELSE ProfileFields[Served(ParseIndex(index)[i][5])])]

\* the profile requests of the district mode: one per linked roster paragraph
DistrictModeFetches ==
    Cardinality({i \in 1..Len(ParseIndex(index)) : ParseIndex(index)[i][5] # ""})

\* all records of a member carry the same link, or none of them carries one
UniformLinks ==
    \A i, j \in 1..Len(municipalities) :
        municipalities[i][3] = municipalities[j][3] =>
            municipalities[i][5] = municipalities[j][5]

C10_ExtractWhateverTheGaps ==
    pc = "extract" => result = Expected(parts)

\* the same with the gap between Senate and District left a single space:
\* what extract_senator_from_string does keep
C10_ExtractWithSenateDistrictGapKept ==
    pc = "extract" /\ parts.gaps[4] = <<" ">> => result = Expected(parts)

\* any change to the gap between Senate and District loses the line
C10_SenateDistrictGapLosesLine ==
    pc = "extract" /\ parts.gaps[4] # <<" ">> => result = Empty4

\* ------------------------------------------------------------------------
\* C11
\* ------------------------------------------------------------------------

\* every field of the result is filled
AllFilled == \A k \in 1..4 : result[k] # EmptyText

\* the line, normalised, matches the pattern
LineMatches == RosterMatch(CollapseWS(SubNewlines(line))).ok

\* C11 as stated: the result is the all-empty tuple or has all four fields
\* filled, never some filled and others empty.
C11_NeverPartial ==
    result = Empty4 \/ AllFilled

\* C11, amended: a line without the literal "Senate District", and a line
\* with it that does not match the pattern (as one without its district
\* number, or without its parenthesis), give the all-empty tuple; any other
\* result has its district filled, with digits only.
C11_EmptyUnlessMatched ==
    /\ ~Contains(line, SenateDistrict) => result = Empty4
    /\ ~LineMatches => result = Empty4
    /\ "cut" \in DOMAIN parts /\ parts.cut \cap {11, 19} # {} => result = Empty4
    /\ result # Empty4 =>
          /\ LineMatches
          /\ result[1] # EmptyText
          /\ \A k \in 1..Len(result[1]) : result[1][k] \in Digits

\* a line that has "Senate District" but lost its district number: all empty
C11_Witness ==
    /\ "cut" \in DOMAIN parts
    /\ parts.cut = {11}
    /\ Contains(line, SenateDistrict)
    /\ ~LineMatches
    /\ result = Empty4

\* a line that lost both words of its town: the town is empty, the other
\* three fields are filled
C11_PartialResult ==
    /\ "cut" \in DOMAIN parts
    /\ parts.cut = {1, 3}
    /\ result[2] = EmptyText
    /\ result[1] # EmptyText /\ result[3] # EmptyText /\ result[4] # EmptyText

\* ------------------------------------------------------------------------
\* What the paragraphs of ProfileParagraphs say, read off them by hand
\* ------------------------------------------------------------------------

\* the paragraphs whose text names Home, Cell, State House
HomeNamed == {3, 5}

CellNamed == {4}

StateHouseNamed == {5, 10}

\* the phone numbers written in a paragraph, left to right
NumbersRead(id) ==
    CASE id = 3  -> <<<<"2", "0", "7", "-", "5", "5", "5", "-", "0", "1", "0", "1">>>>
      [] id = 4  -> <<<<"2", "0", "7", ".", "5", "5", "5", ".", "0", "1", "0", "2">>>>
      [] id = 5  -> <<<<"2", "0", "7", "-", "5", "5", "5", "-", "0", "1", "0", "3">>,
                      <<"2", "0", "7", "-", "2", "8", "7", "-", "1", "5", "1", "5">>>>
      [] id = 10 -> <<<<"(", "2", "0", "7", ")", " ", "2", "8", "7", "-", "1", "5",
                        "1", "5">>>>
      [] OTHER   -> << >>

\* every phone number written in some paragraph
KnownNumbers ==
    UNION {{NumbersRead(id)[k] : k \in 1..Len(NumbersRead(id))} :
              id \in PhoneParagraphs}

\* the numbers of the paragraphs of ids that are in named, in paragraph order
RECURSIVE NumbersOf(_, _)
NumbersOf(ids, named) ==
    IF ids = << >> THEN << >>
    ELSE (IF ids[1] \in named THEN NumbersRead(ids[1]) ELSE << >>)
             \o NumbersOf(Tail(ids), named)

\* the address a paragraph that names Email gives: paragraph 1 gives none
AddressRead(id) ==
    CASE id = 2  -> <<"w", "e", "b", "@", "m", "e", ".", "g", "o", "v">>
      [] id = 12 -> <<"a", "l", "@", "m", "e", ".", "g", "o", "v">>
      [] OTHER   -> EmptyText

\* the positions of the page's paragraphs that are in ids
PositionsOf(ids) == {i \in 1..Len(parts) : parts[i] \in ids}

\* ------------------------------------------------------------------------
\* C12
\* ------------------------------------------------------------------------

\* C12: the home-phone field is the numbers of the paragraphs that name Home,
\* in paragraph order, then the numbers of the paragraphs that name Cell, in
\* paragraph order, joined with ", ".
C12_HomeThenCell ==
    pc = "extract" /\ parts \in Seq(1..12) =>
        result[2] = Join(NumbersOf(parts, HomeNamed) \o NumbersOf(parts, CellNamed),
                         CommaSpace)

\* the Cell paragraph comes first and the Home paragraph second: the home
\* number is listed first
C12_Witness ==
    /\ parts = <<4, 3>>
    /\ result[2] = <<"2", "0", "7", "-", "5", "5", "5", "-", "0", "1", "0", "1",
                     ",", " ",
                     "2", "0", "7", ".", "5", "5", "5", ".", "0", "1", "0", "2">>

\* ------------------------------------------------------------------------
\* C13
\* ------------------------------------------------------------------------

\* no number is in both the home-phone and the state-house field
NoSharedNumber ==
    \A n \in KnownNumbers : ~(Contains(result[2], n) /\ Contains(result[3], n))

\* C13 as stated: a number is never in both fields.
C13_NeverInBothFields ==
    pc = "extract" /\ parts \in Seq(1..12) => NoSharedNumber

\* C13, amended: the state-house field is the numbers of the paragraphs that
\* name State House, joined with ", "; and as long as no paragraph names
\* both State House and Home or Cell, no number is in both fields.
C13_SeparateUnlessBothNamed ==
    pc = "extract" /\ parts \in Seq(1..12) =>
        /\ result[3] = Join(NumbersOf(parts, StateHouseNamed), CommaSpace)
        /\ PositionsOf(StateHouseNamed \cap (HomeNamed \cup CellNamed)) = {} =>
              NoSharedNumber

\* a Home, a Cell and a State House paragraph: both fields filled, no number
\* shared
C13_Witness ==
    /\ parts = <<10, 3, 4>>
    /\ result[2] # EmptyText
    /\ result[3] = <<"(", "2", "0", "7", ")", " ", "2", "8", "7", "-", "1", "5",
                     "1", "5">>
    /\ NoSharedNumber

\* ------------------------------------------------------------------------
\* C14
\* ------------------------------------------------------------------------

\* the first paragraph that names Committee Assignments, 0 if there is none
TriggerAt == IF PositionsOf({6}) = {} THEN 0 ELSE MinOf(PositionsOf({6}))

\* a paragraph that is empty or holds a bold or a strong sub-element
Halting(id) ==
    \/ Strip(ProfileParagraphs[id].text) = EmptyText
    \/ ProfileParagraphs[id].bold
    \/ ProfileParagraphs[id].strong

\* the first halting paragraph after the trigger, one past the end if none
HaltAt ==
    MinOf({i \in (TriggerAt + 1)..(Len(parts) + 1) :
              i = Len(parts) + 1 \/ Halting(parts[i])})

\* C14 as stated: the committees are the trimmed texts of the paragraphs
\* between the trigger and the first paragraph after it that is empty or
\* holds a bold or strong sub-element, joined with "; "; without a trigger
\* the result is empty.
C14_HaltsAtBoldOrStrong ==
    pc = "extract" /\ parts \in Seq(1..12) =>
        result[4] =
            IF TriggerAt = 0 THEN EmptyText
            ELSE Join([k \in 1..(HaltAt - TriggerAt - 1) |->
                          Strip(ProfileParagraphs[parts[TriggerAt + k]].text)],
                      SemicolonSpace)

\* what the code keeps of it: without a trigger the result is empty, and a
\* page on which the first halting paragraph after the trigger holds a
\* strong sub-element or is empty, and is not a second trigger, gives the
\* committees as stated
C14_HaltsAtStrong ==
    pc = "extract" /\ parts \in Seq(1..12) =>
        /\ TriggerAt = 0 => result[4] = EmptyText
        /\ /\ TriggerAt # 0
           /\ HaltAt <= Len(parts) => /\ ~ProfileParagraphs[parts[HaltAt]].bold
                                      /\ parts[HaltAt] # 6
           => result[4] =
                 Join([k \in 1..(HaltAt - TriggerAt - 1) |->
                          Strip(ProfileParagraphs[parts[TriggerAt + k]].text)],
                      SemicolonSpace)

\* ------------------------------------------------------------------------
\* C16
\* ------------------------------------------------------------------------

\* C16 as stated: the first paragraph that names Email decides the result
\* alone, be it an address or nothing.
C16_FirstNamedDecides ==
    pc = "extract" /\ parts \in Seq(1..12) =>
        result[1] =
            IF PositionsOf(EmailParagraphs) = {} THEN EmptyText
            ELSE AddressRead(parts[MinOf(PositionsOf(EmailParagraphs))])

\* C16, amended: the first paragraph that names Email and gives an address
\* decides the result, whatever follows it; paragraphs that name Email and
\* give no address are passed over; if no paragraph gives an address the
\* result is empty.
C16_FirstAddressDecides ==
    pc = "extract" /\ parts \in Seq(1..12) =>
        result[1] =
            IF PositionsOf({2, 12}) = {} THEN EmptyText
            ELSE AddressRead(parts[MinOf(PositionsOf({2, 12}))])

\* an Email paragraph without an address, then one with an address in its
\* text, then one with a mailto link: the second decides
C16_Witness ==
    /\ parts = <<1, 2, 12>>
    /\ result[1] = <<"w", "e", "b", "@", "m", "e", ".", "g", "o", "v">>

\* ------------------------------------------------------------------------
\* C15
\* ------------------------------------------------------------------------

\* the positions in log of the sleeps
Sleeps == {i \in 1..Len(log) : log[i].op = "sleep"}

\* C15: the first thing a run does is the index request, with no sleep
\* before it, and it makes that request once; each profile request has a
\* sleep of REQUEST_DELAY seconds directly before it; each sleep has a
\* profile request directly after it; so between two profile requests that
\* follow one another there is exactly one sleep.  (The requests are the
\* calls of http.request; what the client does to retry one is inside it.)
C15_SleepBeforeEachProfileGet ==
    /\ log # << >> =>
          /\ log[1].op = "GET"
          /\ log[1].path = MunicipalityListPath
    /\ \A i \in 2..Len(log) : ~(log[i].op = "GET" /\ log[i].path = MunicipalityListPath)
    /\ \A i \in AllProfileGets :
          /\ i - 1 \in Sleeps
          /\ log[i - 1].secs = REQUEST_DELAY
    /\ \A i \in Sleeps : i + 1 \in AllProfileGets
    /\ \A i, j \in AllProfileGets :
          /\ i < j
          /\ \A k \in AllProfileGets : ~(i < k /\ k < j)
          => Cardinality({k \in Sleeps : i < k /\ k < j}) = 1

\* a finished run with two profile requests: index request, sleep, request,
\* sleep, request, and the file
C15_Witness ==
    /\ pc = "done"
    /\ Len(log) = 6
    /\ AllProfileGets = {3, 5}
    /\ Sleeps = {2, 4}

\* ------------------------------------------------------------------------
\* C17
\* ------------------------------------------------------------------------

\* C17: from the join step on, senator_details has an entry for exactly the
\* member names of the municipality records, which are the keys of
\* unique_senators: the lookup of a row's member finds an entry.
C17_DetailsForEveryMember ==
    pc \in {"join", "write", "done"} =>
        /\ DOMAIN senator_details = Members
        /\ Members = {unique_senators[n][1] : n \in 1..Len(unique_senators)}
        /\ \A i \in 1..Len(municipalities) :
              municipalities[i][3] \in DOMAIN senator_details

\* at the join step with two members, one of them without any link and so
\* never requested: both have their entry
C17_Witness ==
    /\ pc = "join"
    /\ Cardinality(Members) = 2
    /\ \E m \in Members : LinkedRecords(m) = {} /\ m \in DOMAIN senator_details
    /\ \E m \in Members : ProfileGets(m) # {} /\ m \in DOMAIN senator_details

====
